---- MODULE Spec2Model ----
(***************************************************************************)
(* Model of micro-a2a: the JSON codecs of pkg/a2a (parts, messages,        *)
(* JSON-RPC requests) and the agent server of pkg/a2a/client.go            *)
(* (agentHandler, streamHandlerMiddleware, agentStreamHandler) running the *)
(* reference handlers of main.go.                                          *)
(***************************************************************************)
EXTENDS Integers, Sequences, FiniteSets, TLC

VARIABLES
    store,      \* a.options.Store: key -> record (value, live)
    lastPost,   \* the last POST agentHandler served: its request and HTTP response
    lastGet,    \* the last GET served: its query, the record's state, the response
    attached,   \* history: ?id= value -> number of GETs that found a live record
    subs,       \* one record per started StreamHandler goroutine + its SSE writer
    cpc,        \* codec run: position ("start", "encoded", "decoded")
    part,       \* codec run: the in-memory Part handed to the encoder
    bytes,      \* codec run: the JSON object the encoder produced
    decoded,    \* codec run: the result of unmarshalPart on bytes
    wire,       \* wire run: one encoder or decoder call (op, pc, in, out, back)
    client      \* one call of A2AClient.SendReqStream and the requests it makes

srvVars == <<store, lastPost, lastGet, attached, subs>>
nonSubVars == <<store, lastPost, lastGet, attached>>
codecVars == <<cpc, part, bytes, decoded, wire, client>>
vars ==
    <<store, lastPost, lastGet, attached, subs, cpc, part, bytes, decoded, wire, client>>

----------------------------------------------------------------------------
(* Bounds of the model *)
MaxSubs == 2       \* subscriptions started
MaxStreams == 1    \* subscriptions whose handler and SSE writer are scheduled
MaxTicks == 1      \* ticker firings a StreamHandler sees before its timeout

(* Program constants *)
ChanCap == 1
ErrorInvalidRequest == -32600
ErrorMethodNotFound == -32601
ErrorInvalidParams == -32602
ErrorInternal == -32603
StatusOK == 200
StatusBadRequest == 400
StatusInternalServerError == 500

----------------------------------------------------------------------------
(* JSON values.  A field that is absent from a JSON object is Abs; a field  *)
(* whose value is not a string where one is expected is NotStr.             *)
Abs == "<absent>"
NotStr == "<number>"
GoStr(x) == IF x = Abs THEN "" ELSE x

PartTypeText == "text"
PartTypeFile == "file"
PartTypeData == "data"
PartTypes == {PartTypeText, PartTypeFile, PartTypeData}
MessageKind == "message"

(* map[string]any values, in memory: the nil map, the empty map, a map with *)
(* one entry.  On the wire: absent, {} or the object.                       *)
NilMap == "nil"
EmptyMap == "{}"
OneMap == "{k:v}"
GoMaps == {NilMap, EmptyMap, OneMap}
MapLen(m) == IF m = OneMap THEN 1 ELSE 0
MapEntries(m) == IF m = OneMap THEN {<<"k", "v">>} ELSE {}

ZeroFile == [name |-> "", mimeType |-> "", bytes |-> "", uri |-> ""]

(* One call of an encoder or decoder: the call, its position, its argument, *)
(* its result and, for an encoder, the result of decoding what it produced; *)
(* mem is the caller's copy of the argument as the call leaves it           *)
NoOut == [ok |-> FALSE, err |-> ""]
WireRun(op, in) ==
    [op |-> op, pc |-> "start", in |-> in, mem |-> in, out |-> NoOut, back |-> NoOut]
NoWire ==
    [op |-> "none", pc |-> "idle", in |-> NoOut, mem |-> NoOut, out |-> NoOut,
     back |-> NoOut]

(* One call of SendReqStream: its arguments, the id it generated, its       *)
(* position, the POST and GET it made, the SSE events its OnMessage         *)
(* callback saw, the returned channel, and what the call returned           *)
ClientRun(method, params, id) ==
    [pc |-> "start", method |-> method, params |-> params, id |-> id,
     postId |-> "", postDone |-> FALSE, postStatus |-> 0, getQuery |-> Abs,
     seen |-> <<>>, resChan |-> <<>>, chanClosed |-> FALSE, ret |-> "none", code |-> 0]
NoClient == [ClientRun("", [type |-> "nil"], "") EXCEPT !.pc = "idle"]

----------------------------------------------------------------------------
(* Parts.  An in-memory Part is one of TextPart, FilePart, DataPart, held by *)
(* value or by pointer; fields a variant does not have keep the zero value.  *)
MkText(ptr, kind, text, md) ==
    [variant |-> PartTypeText, ptr |-> ptr, Kind |-> kind, Text |-> text,
     File |-> ZeroFile, Data |-> NilMap, Metadata |-> md]
MkFile(ptr, kind, file, md) ==
    [variant |-> PartTypeFile, ptr |-> ptr, Kind |-> kind, Text |-> "",
     File |-> file, Data |-> NilMap, Metadata |-> md]
MkData(ptr, kind, data, md) ==
    [variant |-> PartTypeData, ptr |-> ptr, Kind |-> kind, Text |-> "",
     File |-> ZeroFile, Data |-> data, Metadata |-> md]
ZeroPart == MkText(FALSE, "", "", NilMap)

(* A part as a JSON object *)
NoFileJSON == [present |-> FALSE, name |-> Abs, mimeType |-> Abs, bytes |-> Abs, uri |-> Abs]
PartJSON(kind, type, text, file, data, md) ==
    [kind |-> kind, type |-> type, text |-> text, file |-> file, data |-> data,
     metadata |-> md]

OmitEmpty(s) == IF s = "" THEN Abs ELSE s
OmitEmptyMap(m) == IF MapLen(m) = 0 THEN Abs ELSE m
MapJSON(m) == IF m = NilMap THEN "null" ELSE m
MapOfJSON(j) == IF j \in {Abs, "null"} THEN NilMap ELSE j

(* json.Marshal of a FileBase: every field is omitempty *)
EncodeFileBase(f) ==
    [present |-> TRUE, name |-> OmitEmpty(f.name), mimeType |-> OmitEmpty(f.mimeType),
     bytes |-> OmitEmpty(f.bytes), uri |-> OmitEmpty(f.uri)]
DecodeFileBase(j) ==
    [name |-> GoStr(j.name), mimeType |-> GoStr(j.mimeType), bytes |-> GoStr(j.bytes),
     uri |-> GoStr(j.uri)]

(* json.Marshal of a TextPart / FilePart / DataPart struct (value or pointer) *)
EncodePartStruct(p) ==
    CASE p.variant = PartTypeText ->
           PartJSON(p.Kind, Abs, p.Text, NoFileJSON, Abs, OmitEmptyMap(p.Metadata))
      [] p.variant = PartTypeFile ->
           PartJSON(p.Kind, Abs, Abs, EncodeFileBase(p.File), Abs, OmitEmptyMap(p.Metadata))
      [] OTHER ->
           PartJSON(p.Kind, Abs, Abs, NoFileJSON, MapJSON(p.Data), OmitEmptyMap(p.Metadata))

(* The switch of Message.MarshalJSON: p.Kind defaults to the variant's tag *)
DefaultKind(p) == IF p.Kind = "" THEN [p EXCEPT !.Kind = p.variant] ELSE p
MarshalPart(p) == EncodePartStruct(DefaultKind(p))

(* json.Unmarshal of the JSON object into the concrete struct *)
DecodePartStruct(variant, j) ==
    CASE variant = PartTypeText ->
           MkText(FALSE, GoStr(j.kind), GoStr(j.text), MapOfJSON(j.metadata))
      [] variant = PartTypeFile ->
           MkFile(FALSE, GoStr(j.kind), DecodeFileBase(j.file), MapOfJSON(j.metadata))
      [] OTHER ->
           MkData(FALSE, GoStr(j.kind), MapOfJSON(j.data), MapOfJSON(j.metadata))

PartOk(p) == [ok |-> TRUE, err |-> "", part |-> p]
PartErr(e) == [ok |-> FALSE, err |-> e, part |-> ZeroPart]

(* Mutant of unmarshalPart: the discriminator is read from "type" *)
unmarshalPartByType(j) ==
    IF j.type \in {Abs, NotStr}
    THEN PartErr("part missing required 'type' field")
    ELSE IF j.type \in PartTypes
         THEN PartOk(DecodePartStruct(j.type, j))
         ELSE PartErr("unknown part type")

unmarshalPart(j) ==
    IF j.kind \in {Abs, NotStr}
    THEN PartErr("part 'kind' field must be a string")
    ELSE IF j.kind \in PartTypes
         THEN PartOk(DecodePartStruct(j.kind, j))
         ELSE PartErr("unknown part kind")

----------------------------------------------------------------------------
(* Messages *)
Msg(kind, id, role, parts) ==
    [Kind |-> kind, MessageId |-> id, Role |-> role, Parts |-> parts]
ZeroMessage == Msg("", "", "", <<>>)
MsgJSON(kind, id, role, parts) ==
    [present |-> TRUE, kind |-> kind, messageId |-> id, role |-> role, parts |-> parts]
NoMsgJSON == [present |-> FALSE, kind |-> Abs, messageId |-> Abs, role |-> Abs, parts |-> <<>>]

MsgErr(e) == [ok |-> FALSE, err |-> e, msg |-> ZeroMessage]

(* Message.MarshalJSON *)
MessageMarshalJSON(m) ==
    IF m.MessageId = ""
    THEN [ok |-> FALSE, err |-> "messageId is required", json |-> NoMsgJSON]
    ELSE [ok |-> TRUE, err |-> "",
          json |-> MsgJSON(IF m.Kind = "" THEN MessageKind ELSE m.Kind, m.MessageId,
                           m.Role, [i \in 1..Len(m.Parts) |-> MarshalPart(m.Parts[i])])]

(* What Message.MarshalJSON leaves in the caller's Message: the receiver is *)
(* a copy, but a part held by pointer is the caller's struct, and the       *)
(* switch assigns p.Kind through that pointer when it is empty              *)
MarshalEffect(m) ==
    IF m.MessageId = "" THEN m
    ELSE [m EXCEPT !.Parts = [i \in 1..Len(m.Parts) |->
                                IF m.Parts[i].ptr THEN DefaultKind(m.Parts[i])
                                ELSE m.Parts[i]]]

(* Mutant of MessageUnmarshalJSON: a part that fails to decode is skipped *)
MessageUnmarshalJSONSkip(j) ==
    IF GoStr(j.messageId) = ""
    THEN MsgErr("messageId is required")
    ELSE LET res == [i \in 1..Len(j.parts) |-> unmarshalPart(j.parts[i])]
         IN [ok |-> TRUE, err |-> "",
             msg |-> Msg(IF GoStr(j.kind) = "" THEN MessageKind ELSE GoStr(j.kind),
                         j.messageId, GoStr(j.role),
                         LET good == SelectSeq(res, LAMBDA r : r.ok)
                         IN [i \in 1..Len(good) |-> good[i].part])]

(* Message.UnmarshalJSON: the identifier check, then the parts in order; the *)
(* first part that fails to decode aborts the message                        *)
MessageUnmarshalJSON(j) ==
    IF GoStr(j.messageId) = ""
    THEN MsgErr("messageId is required")
    ELSE LET res == [i \in 1..Len(j.parts) |-> unmarshalPart(j.parts[i])]
             bad == {i \in 1..Len(j.parts) : ~res[i].ok}
         IN IF bad # {}
            THEN MsgErr(res[CHOOSE i \in bad : \A k \in bad : i <= k].err)
            ELSE [ok |-> TRUE, err |-> "",
                  msg |-> Msg(IF GoStr(j.kind) = "" THEN MessageKind ELSE GoStr(j.kind),
                              j.messageId, GoStr(j.role),
                              [i \in 1..Len(j.parts) |-> res[i].part])]

----------------------------------------------------------------------------
(* Artifacts.  Artifact has UnmarshalJSON but no MarshalJSON: encoding/json *)
(* writes each element of Parts as the struct it holds.                     *)
Artifact(id, name, parts) == [ArtifactID |-> id, Name |-> name, Parts |-> parts]
ZeroArtifact == Artifact("", "", <<>>)
ArtifactJSON(id, name, parts) ==
    [present |-> TRUE, artifactId |-> id, name |-> name, parts |-> parts]
ArtErr(e) == [ok |-> FALSE, err |-> e, art |-> ZeroArtifact]

(* json.Marshal of an Artifact *)
EncodeArtifact(a) ==
    ArtifactJSON(a.ArtifactID, OmitEmpty(a.Name),
                 [i \in 1..Len(a.Parts) |-> EncodePartStruct(a.Parts[i])])

(* Mutant of ArtifactUnmarshalJSON: the parts are decoded before the check *)
ArtifactUnmarshalJSONPartsFirst(j) ==
    LET res == [i \in 1..Len(j.parts) |-> unmarshalPart(j.parts[i])]
        bad == {i \in 1..Len(j.parts) : ~res[i].ok}
    IN IF bad # {}
       THEN ArtErr(res[CHOOSE i \in bad : \A k \in bad : i <= k].err)
       ELSE IF GoStr(j.artifactId) = ""
       THEN ArtErr("artifactId is required")
       ELSE [ok |-> TRUE, err |-> "",
             art |-> Artifact(j.artifactId, GoStr(j.name),
                              [i \in 1..Len(j.parts) |-> res[i].part])]

(* Artifact.UnmarshalJSON *)
ArtifactUnmarshalJSON(j) ==
    IF GoStr(j.artifactId) = ""
    THEN ArtErr("artifactId is required")
    ELSE LET res == [i \in 1..Len(j.parts) |-> unmarshalPart(j.parts[i])]
             bad == {i \in 1..Len(j.parts) : ~res[i].ok}
         IN IF bad # {}
            THEN ArtErr(res[CHOOSE i \in bad : \A k \in bad : i <= k].err)
            ELSE [ok |-> TRUE, err |-> "",
                  art |-> Artifact(j.artifactId, GoStr(j.name),
                                   [i \in 1..Len(j.parts) |-> res[i].part])]

----------------------------------------------------------------------------
(* Agent cards.  securitySchemes is a JSON object; AgentCard.UnmarshalJSON  *)
(* ranges over it as a Go map, so the order of its entries is not fixed: a  *)
(* card JSON lists them in the order the range visits them.                 *)
APIKeySecurity == "apiKey"
HTTPAuthSecurity == "http"
OAuth2Security == "oauth2"
OpenIdConnectSecurity == "openIdConnect"
SecuritySchemeTypes ==
    {APIKeySecurity, HTTPAuthSecurity, OAuth2Security, OpenIdConnectSecurity}
SchemeJSON(key, type) == [key |-> key, type |-> type]
CardJSON(name, schemes) == [name |-> name, securitySchemes |-> schemes]
Card(name, schemes) == [Name |-> name, SecuritySchemes |-> schemes]
CardErr(e) == [ok |-> FALSE, err |-> e, card |-> Card("", <<>>)]

(* One pass of the loop body: the scheme's concrete type, or the error *)
unmarshalScheme(j) ==
    IF j.type \in {Abs, NotStr}
    THEN [ok |-> FALSE, err |-> "security scheme missing or invalid 'type' field",
          scheme |-> SchemeJSON("", "")]
    ELSE IF j.type \in SecuritySchemeTypes
         THEN [ok |-> TRUE, err |-> "", scheme |-> [key |-> j.key, type |-> j.type]]
         ELSE [ok |-> FALSE, err |-> "unknown security scheme type",
               scheme |-> SchemeJSON("", "")]

(* AgentCard.UnmarshalJSON *)
AgentCardUnmarshalJSON(j) ==
    LET res == [i \in 1..Len(j.securitySchemes) |-> unmarshalScheme(j.securitySchemes[i])]
        bad == {i \in 1..Len(j.securitySchemes) : ~res[i].ok}
    IN IF bad # {}
       THEN CardErr(res[CHOOSE i \in bad : \A k \in bad : i <= k].err)
       ELSE [ok |-> TRUE, err |-> "",
             card |-> Card(GoStr(j.name),
                           [i \in 1..Len(j.securitySchemes) |-> res[i].scheme])]

----------------------------------------------------------------------------
(* JSON-RPC ids: a string, a number (decoded into `any` as float64) or nil *)
IdStr(s) == [t |-> "str", s |-> s, n |-> 0]
IdNum(n) == [t |-> "num", s |-> "", n |-> n]
IdNil == [t |-> "nil", s |-> "", n |-> 0]

DigitStr(d) ==
    CASE d = 0 -> "0" [] d = 1 -> "1" [] d = 2 -> "2" [] d = 3 -> "3" [] d = 4 -> "4"
      [] d = 5 -> "5" [] d = 6 -> "6" [] d = 7 -> "7" [] d = 8 -> "8" [] OTHER -> "9"

RECURSIVE Decimal(_)
Decimal(n) == IF n < 10 THEN DigitStr(n) ELSE Decimal(n \div 10) \o DigitStr(n % 10)

RECURSIVE NumDigits(_)
NumDigits(n) == IF n < 10 THEN 1 ELSE 1 + NumDigits(n \div 10)

RECURSIVE StripZeros(_)
StripZeros(n) == IF n > 0 /\ n % 10 = 0 THEN StripZeros(n \div 10) ELSE n

RECURSIVE LeadDigit(_)
LeadDigit(n) == IF n < 10 THEN n ELSE LeadDigit(n \div 10)

RECURSIVE FracDigits(_)
FracDigits(n) == IF n < 10 THEN "" ELSE FracDigits(n \div 10) \o DigitStr(n % 10)

(* fmt's %v of a float64 holding the natural number n: strconv's shortest   *)
(* 'g' format, which switches to exponent notation from 1e+06 on            *)
FormatFloatG(n) ==
    LET exp == NumDigits(n) - 1
        m == StripZeros(n)
    IN IF exp < 6
       THEN Decimal(n)
       ELSE DigitStr(LeadDigit(m))
            \o (IF m < 10 THEN "" ELSE "." \o FracDigits(m))
            \o "e+" \o (IF exp < 10 THEN "0" ELSE "") \o Decimal(exp)

(* fmt.Sprintf("%v", r.ID): the store key of a request *)
StoreKey(id) ==
    CASE id.t = "str" -> id.s
      [] id.t = "num" -> FormatFloatG(id.n)
      [] OTHER -> "<nil>"

(* The text of an id as the request's JSON carries it, which a subscriber   *)
(* echoes in ?id= *)
IdText(id) ==
    CASE id.t = "str" -> id.s
      [] id.t = "num" -> Decimal(id.n)
      [] OTHER -> "null"

----------------------------------------------------------------------------
(* JSON-RPC requests *)
TasksSend == "tasks/send"
TasksSendSubscribe == "tasks/sendSubscribe"
TasksGet == "tasks/get"
TasksCancel == "tasks/cancel"
TasksResubscribe == "tasks/resubscribe"
TasksPushNotificationGet == "tasks/pushNotification/get"
TasksPushNotificationSet == "tasks/pushNotification/set"
Methods ==
    {TasksSend, TasksSendSubscribe, TasksGet, TasksCancel, TasksResubscribe,
     TasksPushNotificationGet, TasksPushNotificationSet}

NilParams == [type |-> "nil", ID |-> "", Message |-> ZeroMessage]
TaskSendParams(id, m) == [type |-> "TaskSendParams", ID |-> id, Message |-> m]
TaskIDParams(id) == [type |-> "TaskIDParams", ID |-> id, Message |-> ZeroMessage]
TaskQueryParams(id) == [type |-> "TaskQueryParams", ID |-> id, Message |-> ZeroMessage]

(* MethodToParamsType: method -> the Go type of the params it expects *)
MethodToParamsType ==
    [m \in {TasksSend, TasksSendSubscribe, TasksGet, TasksCancel, TasksResubscribe} |->
        CASE m \in {TasksSend, TasksSendSubscribe} -> "TaskSendParams"
          [] m = TasksGet -> "TaskQueryParams"
          [] OTHER -> "TaskIDParams"]

(* validateMethodParams: "" when the params fit the method, else the error *)
validateMethodParams(method, params) ==
    IF method \notin DOMAIN MethodToParamsType THEN "unsupported method"
    ELSE IF params.type = "nil" THEN "params cannot be nil for method"
    ELSE IF MethodToParamsType[method] # params.type THEN "invalid params type for method"
    ELSE ""

Req(id, method, params) == [ID |-> id, Method |-> method, Params |-> params]
ZeroReq == Req(IdNil, "", NilParams)

ParamsJSON(id, msg) == [present |-> TRUE, id |-> id, message |-> msg]
NoParamsJSON == [present |-> FALSE, id |-> Abs, message |-> NoMsgJSON]
ReqJSON(id, method, params) == [id |-> id, method |-> method, params |-> params]
NoReqJSON == ReqJSON(IdNil, "", NoParamsJSON)

ReqErr(e) == [ok |-> FALSE, err |-> e, req |-> ZeroReq]
ReqOk(r) == [ok |-> TRUE, err |-> "", req |-> r]

(* JSONRPCRequest.UnmarshalJSON *)
DecodeRequest(w) ==
    CASE w.method \in {TasksCancel, TasksResubscribe} ->
           IF ~w.params.present THEN ReqErr("unexpected end of JSON input")
           ELSE ReqOk(Req(w.id, w.method, TaskIDParams(GoStr(w.params.id))))
      [] w.method = TasksGet ->
           IF ~w.params.present THEN ReqErr("unexpected end of JSON input")
           ELSE ReqOk(Req(w.id, w.method, TaskQueryParams(GoStr(w.params.id))))
      [] w.method \in {TasksSend, TasksSendSubscribe} ->
           IF ~w.params.present THEN ReqErr("unexpected end of JSON input")
           ELSE IF ~w.params.message.present
           THEN ReqOk(Req(w.id, w.method, TaskSendParams(GoStr(w.params.id), ZeroMessage)))
           ELSE LET m == MessageUnmarshalJSON(w.params.message)
                IN IF ~m.ok THEN ReqErr(m.err)
                   ELSE ReqOk(Req(w.id, w.method,
                                  TaskSendParams(GoStr(w.params.id), m.msg)))
      [] OTHER -> ReqOk(Req(w.id, w.method, NilParams))

(* JSONRPCRequest.MarshalJSON *)
EncodeRequest(r) ==
    CASE r.Params.type = "nil" ->
           [ok |-> TRUE, json |-> ReqJSON(r.ID, r.Method, NoParamsJSON)]
      [] r.Params.type = "TaskSendParams" ->
           LET m == MessageMarshalJSON(r.Params.Message)
           IN IF ~m.ok THEN [ok |-> FALSE, json |-> NoReqJSON]
              ELSE [ok |-> TRUE,
                    json |-> ReqJSON(r.ID, r.Method, ParamsJSON(r.Params.ID, m.json))]
      [] OTHER ->
           [ok |-> TRUE, json |-> ReqJSON(r.ID, r.Method, ParamsJSON(r.Params.ID, NoMsgJSON))]

----------------------------------------------------------------------------
(* HTTP responses of the server *)
NoResult == [type |-> "none", state |-> "", final |-> FALSE, n |-> 0]
TaskResult(state) == [type |-> "Task", state |-> state, final |-> FALSE, n |-> 0]
ArtifactEvent(n) ==
    [type |-> "TaskArtifactUpdateEvent", state |-> "", final |-> FALSE, n |-> n]
StatusEvent(state, final) ==
    [type |-> "TaskStatusUpdateEvent", state |-> state, final |-> final, n |-> 0]

Response(id, result) ==
    [kind |-> "response", code |-> 0, msg |-> "", id |-> id, result |-> result]
ErrorBody(code, msg) ==
    [kind |-> "error", code |-> code, msg |-> msg, id |-> IdNil, result |-> NoResult]
NullBody == [kind |-> "null", code |-> 0, msg |-> "", id |-> IdNil, result |-> NoResult]
EmptyBody == [kind |-> "empty", code |-> 0, msg |-> "", id |-> IdNil, result |-> NoResult]
Http(status, body) == [status |-> status, body |-> body]
NoHttp == Http(0, EmptyBody)

(* MyAgentHandlers.TaskHandler: reads Parts[0].(TextPart).Text, which panics *)
(* when there is no first part or it is not a TextPart value                  *)
TaskHandlerPanics(r) ==
    \/ Len(r.Params.Message.Parts) = 0
    \/ r.Params.Message.Parts[1].variant # PartTypeText
    \/ r.Params.Message.Parts[1].ptr
TaskHandler(r) == Response(r.ID, TaskResult("completed"))

(* agentHandler: the response it writes and the store write it makes.       *)
(* storeOk: whether Store.Write succeeds.                                   *)
NoWrite(http) == [http |-> http, write |-> FALSE, key |-> "", value |-> NoReqJSON]
agentHandler(w, storeOk) ==
    LET d == DecodeRequest(w)
        r == d.req
    IN IF ~d.ok
       THEN NoWrite(Http(StatusInternalServerError,
                         ErrorBody(ErrorInternal, "error unmarshalling request body")))
       ELSE CASE r.Method = TasksSend ->
                   IF TaskHandlerPanics(r)
                   THEN NoWrite(Http(StatusInternalServerError, EmptyBody))
                   ELSE NoWrite(Http(StatusOK, TaskHandler(r)))
              [] r.Method = TasksSendSubscribe ->
                   IF r.ID = IdNil
                   THEN NoWrite(Http(StatusBadRequest,
                                     ErrorBody(ErrorInvalidRequest, "ID shouldn't be nil")))
                   ELSE LET e == EncodeRequest(r)
                        IN IF ~e.ok
                           THEN NoWrite(Http(StatusInternalServerError,
                                     ErrorBody(ErrorInternal, "faild to Marshal request")))
                           ELSE IF ~storeOk
                           THEN NoWrite(Http(StatusInternalServerError,
                                     ErrorBody(ErrorInternal, "store write error")))
                           ELSE [http |-> Http(StatusOK, NullBody), write |-> TRUE,
                                 key |-> StoreKey(r.ID), value |-> e.json]
              [] r.Method \in {TasksGet, TasksCancel} -> NoWrite(Http(StatusOK, EmptyBody))
              [] OTHER ->
                   NoWrite(Http(StatusInternalServerError,
                                ErrorBody(ErrorInvalidRequest, "unsupported A2A method")))

----------------------------------------------------------------------------
(* Results on the wire.  A result JSON object is described by its top-level *)
(* fields id, status, final, artifact and artifacts; an in-memory result is *)
(* a Task, a TaskStatusUpdateEvent, a TaskArtifactUpdateEvent or nil.       *)
NoArtifactJSON == [present |-> FALSE, artifactId |-> Abs, name |-> Abs, parts |-> <<>>]
ResultJSON(id, status, final, artifact, artifacts) ==
    [present |-> TRUE, object |-> TRUE, id |-> id, status |-> status, final |-> final,
     artifact |-> artifact, artifacts |-> artifacts]
NoResultJSON == [present |-> FALSE, object |-> FALSE, id |-> Abs, status |-> Abs,
                 final |-> Abs, artifact |-> NoArtifactJSON, artifacts |-> <<>>]
(* A result that is a JSON string, number or array *)
ScalarResultJSON == [NoResultJSON EXCEPT !.present = TRUE]

WireResult(type, id, state, final, art, arts) ==
    [type |-> type, ID |-> id, State |-> state, Final |-> final, Artifact |-> art,
     Artifacts |-> arts]
NilResult == WireResult("nil", "", "", FALSE, ZeroArtifact, <<>>)
Task(id, state, arts) == WireResult("Task", id, state, FALSE, ZeroArtifact, arts)
TaskStatusUpdateEvent(id, state, final) ==
    WireResult("TaskStatusUpdateEvent", id, state, final, ZeroArtifact, <<>>)
TaskArtifactUpdateEvent(id, art) ==
    WireResult("TaskArtifactUpdateEvent", id, "", FALSE, art, <<>>)

(* The TaskState values the source marks as terminal *)
TerminalStates == {"completed", "canceled", "failed", "rejected", "unknown"}

JSONBool(b) == IF b THEN "true" ELSE "false"

(* json.Marshal(r.Result): id, status, final and artifact carry no omitempty *)
EncodeResult(r) ==
    CASE r.type = "Task" ->
           ResultJSON(r.ID, r.State, Abs, NoArtifactJSON,
                      [i \in 1..Len(r.Artifacts) |-> EncodeArtifact(r.Artifacts[i])])
      [] r.type = "TaskStatusUpdateEvent" ->
           ResultJSON(r.ID, r.State, JSONBool(r.Final), NoArtifactJSON, <<>>)
      [] r.type = "TaskArtifactUpdateEvent" ->
           ResultJSON(r.ID, Abs, Abs, EncodeArtifact(r.Artifact), <<>>)
      [] OTHER -> NoResultJSON

ResErr(e) == [ok |-> FALSE, err |-> e, result |-> NilResult]
ResOk(r) == [ok |-> TRUE, err |-> "", result |-> r]

(* The branches of JSONRPCResponse.UnmarshalJSON that pick the result type *)
DecodeResult(j) ==
    IF ~j.present THEN ResOk(NilResult)
    ELSE IF ~j.object
    THEN ResErr("json: cannot unmarshal into Go value of type map[string]interface {}")
    ELSE IF j.id = Abs THEN ResOk(NilResult)
    ELSE IF j.status # Abs
    THEN LET res == [i \in 1..Len(j.artifacts) |-> ArtifactUnmarshalJSON(j.artifacts[i])]
             bad == {i \in 1..Len(j.artifacts) : ~res[i].ok}
         IN IF bad # {}
            THEN ResErr(res[CHOOSE i \in bad : \A k \in bad : i <= k].err)
            ELSE ResOk(Task(GoStr(j.id), GoStr(j.status),
                            [i \in 1..Len(j.artifacts) |-> res[i].art]))
    ELSE IF j.artifact.present
    THEN LET a == ArtifactUnmarshalJSON(j.artifact)
         IN IF ~a.ok THEN ResErr(a.err)
            ELSE ResOk(TaskArtifactUpdateEvent(GoStr(j.id), a.art))
    ELSE IF j.final # Abs
    THEN ResOk(TaskStatusUpdateEvent(GoStr(j.id), "", j.final = "true"))
    ELSE ResOk(NilResult)

(* JSONRPCResponse.MarshalJSON and JSONRPCResponse.UnmarshalJSON *)
(* The named ErrorCode constants *)
ReservedKinds ==
    {"ErrorParse", "ErrorInvalidRequest", "ErrorMethodNotFound", "ErrorInvalidParams",
     "ErrorInternal"}
ErrorCodes ==
    [ErrorParse |-> -32700,
     ErrorInvalidRequest |-> ErrorInvalidRequest,
     ErrorMethodNotFound |-> ErrorMethodNotFound,
     ErrorInvalidParams |-> ErrorInvalidParams,
     ErrorInternal |-> ErrorInternal,
     ErrorTaskNotFound |-> -32001,
     ErrorTaskCantCancel |-> -32002,
     ErrorPushNotificationNotSupported |-> -32003,
     ErrorUnsupportedOperation |-> -32004,
     ErrorIncompatibleContentType |-> -32005,
     ErrorAuthenticationFailed |-> -32000,
     ErrorPermissionDenied |-> -32001,
     ErrorInvalidTaskState |-> -32002,
     ErrorRateLimitExceeded |-> -32004,
     ErrorServiceUnavailable |-> -32005,
     ErrorTimeout |-> -32006]

NilError == [set |-> FALSE, Code |-> 0, Message |-> ""]
JSONRPCError(code, msg) == [set |-> TRUE, Code |-> code, Message |-> msg]
NoErrorJSON == [present |-> FALSE, code |-> 0, message |-> ""]
JSONRPCResponse(jsonrpc, id, result, error) ==
    [JSONRPC |-> jsonrpc, ID |-> id, Result |-> result, Error |-> error]
ResponseJSON(jsonrpc, id, result, error) ==
    [jsonrpc |-> jsonrpc, id |-> id, result |-> result, error |-> error]

JSONRPCResponseMarshalJSON(r) ==
    [ok |-> TRUE, err |-> "",
     json |-> ResponseJSON(r.JSONRPC, r.ID, EncodeResult(r.Result),
                           IF r.Error.set
                           THEN [present |-> TRUE, code |-> r.Error.Code,
                                 message |-> r.Error.Message]
                           ELSE NoErrorJSON)]
JSONRPCResponseUnmarshalJSON(j) ==
    LET d == DecodeResult(j.result)
        e == IF j.error.present THEN JSONRPCError(j.error.code, j.error.message)
             ELSE NilError
    IN [ok |-> d.ok, err |-> d.err,
        resp |-> JSONRPCResponse(GoStr(j.jsonrpc), j.id, d.result, e)]

----------------------------------------------------------------------------
(* Inputs *)
TextJ == PartJSON(PartTypeText, Abs, "hi", NoFileJSON, Abs, Abs)
FileJ ==
    PartJSON(PartTypeFile, Abs, Abs,
             [present |-> TRUE, name |-> "f", mimeType |-> Abs, bytes |-> Abs, uri |-> "u"],
             Abs, OneMap)

(* params:{id:"t1", message:{role:"user", parts:[{kind:"text", text:"hi"}]}} *)
ParamsA == ParamsJSON("t1", MsgJSON(Abs, Abs, "user", <<TextJ>>))
Params1 == ParamsJSON("t1", MsgJSON(Abs, "m1", "user", <<TextJ>>))
Params2 == ParamsJSON("t2", MsgJSON(MessageKind, "m2", "agent", <<FileJ, TextJ>>))
ParamsNoMsg == ParamsJSON("t3", NoMsgJSON)

ScenarioA == ReqJSON(IdNum(1), TasksSend, ParamsA)

(* The requests posted to a streaming agent *)
StreamRequests ==
    { ReqJSON(IdStr("1"), TasksSendSubscribe, Params1),
      ReqJSON(IdStr("1"), TasksSendSubscribe, Params2),
      ReqJSON(IdNum(1000000), TasksSendSubscribe, Params1),
      ReqJSON(IdStr("1"), TasksSendSubscribe, ParamsNoMsg) }

(* The requests posted to an agent without streaming *)
RpcRequests ==
    { ScenarioA,
      ReqJSON(IdNum(1), TasksSend, Params1),
      ReqJSON(IdStr("a"), TasksSend, Params2),
      ReqJSON(IdNum(2), TasksSend, ParamsNoMsg),
      ReqJSON(IdNum(2), TasksSend, NoParamsJSON),
      ReqJSON(IdNum(1), TasksSendSubscribe, Params1),
      ReqJSON(IdStr("1"), TasksSendSubscribe, Params2),
      ReqJSON(IdStr("a"), TasksSendSubscribe, Params1),
      ReqJSON(IdStr("a"), TasksSendSubscribe, Params2),
      ReqJSON(IdStr("a"), TasksSendSubscribe, ParamsA),
      ReqJSON(IdNil, TasksSendSubscribe, Params2),
      ReqJSON(IdNum(3), TasksGet, ParamsJSON("t1", NoMsgJSON)),
      ReqJSON(IdNum(3), TasksCancel, ParamsJSON("t1", NoMsgJSON)),
      ReqJSON(IdNum(3), TasksResubscribe, ParamsJSON("t1", NoMsgJSON)),
      ReqJSON(IdNum(4), TasksPushNotificationGet, ParamsJSON("t1", NoMsgJSON)),
      ReqJSON(IdNum(4), TasksPushNotificationSet, ParamsJSON("t1", NoMsgJSON)),
      ReqJSON(IdNum(4), "tasks/unknown", NoParamsJSON) }

WireRequests == StreamRequests \cup RpcRequests
IdToks == {w.id : w \in WireRequests}

(* The ?id= values of subscription GETs *)
Queries == {IdText(w.id) : w \in StreamRequests}
Keys == {StoreKey(i) : i \in IdToks} \cup Queries

----------------------------------------------------------------------------
(* The store (go-micro store.Store): Write replaces the record under the    *)
(* key; Read fails with not-found for a key never written and for a record  *)
(* whose Expiry has run out.                                                *)
NoRecord == [written |-> FALSE, live |-> FALSE, value |-> NoReqJSON]
StoreWrite(st, key, value) ==
    [st EXCEPT ![key] = [written |-> TRUE, live |-> TRUE, value |-> value]]
StoreRead(st, key) ==
    IF st[key].written /\ st[key].live
    THEN [found |-> TRUE, value |-> st[key].value]
    ELSE [found |-> FALSE, value |-> NoReqJSON]

GetRec(q, cause, http, sub) == [q |-> q, cause |-> cause, http |-> http, sub |-> sub]
NoGet == GetRec("", "none", NoHttp, 0)

(* A subscription: the StreamHandler goroutine (hpc, ticks), the result     *)
(* channel (buf, closed), the SSE writer of agentStreamHandler (wpc) and    *)
(* the client's connection (gone); sent and emitted are the histories of    *)
(* the channel sends and of the SSE events written.                         *)
NewSub(q, r) ==
    [q |-> q, req |-> r, hpc |-> "select", ticks |-> 0, buf |-> <<>>, closed |-> FALSE,
     sent |-> <<>>, emitted |-> <<>>, wpc |-> "top", gone |-> FALSE]

Init ==
    /\ store = [k \in Keys |-> NoRecord]
    /\ lastPost = [req |-> NoReqJSON, http |-> NoHttp]
    /\ lastGet = NoGet
    /\ attached = [q \in Queries |-> 0]
    /\ subs = <<>>
    /\ cpc = "idle"
    /\ part = ZeroPart
    /\ bytes = EncodePartStruct(ZeroPart)
    /\ decoded = PartErr("")
    /\ wire = NoWire
    /\ client = NoClient

(* POST <path> and POST <path>/stream: agentHandler *)
Post(w, storeOk) ==
    /\ LET o == agentHandler(w, storeOk)
       IN /\ lastPost' = [req |-> w, http |-> o.http]
          /\ store' = IF o.write THEN StoreWrite(store, o.key, o.value) ELSE store
    /\ UNCHANGED <<lastGet, attached, subs, codecVars>>

(* The Expiry (60 s) of the record under key k runs out *)
Expire(k) ==
    /\ store[k].written /\ store[k].live
    /\ store' = [store EXCEPT ![k].live = FALSE]
    /\ UNCHANGED <<lastPost, lastGet, attached, subs, codecVars>>

(* History: what the record under key q is when a GET asks for it *)
RecordState(st, q) ==
    IF ~st[q].written THEN "never" ELSE IF ~st[q].live THEN "expired" ELSE "live"

(* Mutant of streamHandlerMiddleware: the return after the not-found reply *)
(* is missing, so the handler is launched on the zero-value request         *)
streamHandlerMiddlewareNoReturn(st, q, hasId) ==
    IF ~hasId
    THEN [start |-> FALSE, req |-> ZeroReq,
          http |-> Http(StatusBadRequest,
                        ErrorBody(ErrorInvalidRequest, "URL is missing id query"))]
    ELSE LET rd == StoreRead(st, q)
             d == DecodeRequest(rd.value)
         IN IF ~rd.found
            THEN [start |-> TRUE, req |-> ZeroReq,
                  http |-> Http(StatusInternalServerError,
                                ErrorBody(ErrorInternal, "request id no found"))]
            ELSE [start |-> d.ok, req |-> d.req, http |-> Http(StatusOK, EmptyBody)]

(* Mutant of streamHandlerMiddleware: the id is served to one GET only *)
streamHandlerMiddlewareOnce(st, q, hasId) ==
    LET rd == StoreRead(st, q)
        d == DecodeRequest(rd.value)
    IN IF hasId /\ rd.found /\ d.ok /\ \A s \in 1..Len(subs) : subs[s].q # q
       THEN [start |-> TRUE, req |-> d.req, http |-> Http(StatusOK, EmptyBody)]
       ELSE [start |-> FALSE, req |-> ZeroReq,
             http |-> Http(StatusInternalServerError,
                           ErrorBody(ErrorInternal, "request id no found"))]

(* GET <path>/stream: streamHandlerMiddleware, then agentStreamHandler up   *)
(* to its c.Stream loop.  hasId: whether the URL carries an id query.       *)
(* The outcome: the response, and the request a StreamHandler is started on *)
streamHandlerMiddleware(st, q, hasId) ==
    IF ~hasId
    THEN [start |-> FALSE, req |-> ZeroReq,
          http |-> Http(StatusBadRequest,
                        ErrorBody(ErrorInvalidRequest, "URL is missing id query"))]
    ELSE LET rd == StoreRead(st, q)
             d == DecodeRequest(rd.value)
         IN IF ~rd.found
            THEN [start |-> FALSE, req |-> ZeroReq,
                  http |-> Http(StatusInternalServerError,
                                ErrorBody(ErrorInternal, "request id no found"))]
            ELSE IF ~d.ok
            THEN [start |-> FALSE, req |-> ZeroReq,
                  http |-> Http(StatusInternalServerError,
                                ErrorBody(ErrorInternal,
                                          "failed to Unmarshal req from store"))]
            ELSE [start |-> TRUE, req |-> d.req, http |-> Http(StatusOK, EmptyBody)]

Get(q, hasId) ==
    /\ Len(subs) < MaxSubs
    /\ LET o == streamHandlerMiddleware(store, q, hasId)
           cause == IF hasId THEN RecordState(store, q) ELSE "noquery"
       IN /\ lastGet' = GetRec(IF hasId THEN q ELSE "", cause, o.http,
                               IF o.start THEN Len(subs) + 1 ELSE 0)
          /\ subs' = IF o.start THEN Append(subs, NewSub(q, o.req)) ELSE subs
          /\ attached' = IF cause = "live" THEN [attached EXCEPT ![q] = @ + 1]
                         ELSE attached
    /\ UNCHANGED <<store, lastPost, codecVars>>

----------------------------------------------------------------------------
(* MyAgentHandlers.StreamHandler, one goroutine per subscription s *)
Started(s) == s \in 1..Len(subs)

StreamEvent(r, result) == Response(r.ID, result)

(* select: the ticker fires *)
Tick(s) ==
    /\ Started(s) /\ subs[s].hpc = "select" /\ subs[s].ticks < MaxTicks
    /\ subs' = [subs EXCEPT ![s].hpc = "sendArtifact", ![s].ticks = @ + 1]
    /\ UNCHANGED <<nonSubVars, codecVars>>

(* select: the 60 s timeout fires *)
Timeout(s) ==
    /\ Started(s) /\ subs[s].hpc = "select"
    /\ subs' = [subs EXCEPT ![s].hpc = "sendFinal"]
    /\ UNCHANGED <<nonSubVars, codecVars>>

(* res <- v on the buffered channel: blocks while the buffer is full *)
ChanSend(sub, v) ==
    [sub EXCEPT !.buf = Append(@, v), !.sent = Append(@, v)]
(* Mutant of CanSend: the send does not wait for room in the buffer *)
CanSendUnbounded(sub) == ~sub.closed

CanSend(sub) == Len(sub.buf) < ChanCap /\ ~sub.closed

(* Mutant of SendArtifact: the handler gives up once the subscriber is gone *)
SendArtifactOrCancel(s) ==
    /\ Started(s) /\ subs[s].hpc = "sendArtifact"
    /\ IF subs[s].wpc = "gone"
       THEN subs' = [subs EXCEPT ![s].hpc = "done", ![s].closed = TRUE]
       ELSE /\ CanSend(subs[s])
            /\ subs' = [subs EXCEPT ![s] =
                          [ChanSend(@, StreamEvent(@.req, ArtifactEvent(@.ticks)))
                              EXCEPT !.hpc = "select"]]
    /\ UNCHANGED <<nonSubVars, codecVars>>

SendArtifact(s) ==
    /\ Started(s) /\ subs[s].hpc = "sendArtifact" /\ CanSend(subs[s])
    /\ subs' = [subs EXCEPT ![s] =
                  [ChanSend(@, StreamEvent(@.req, ArtifactEvent(@.ticks)))
                      EXCEPT !.hpc = "select"]]
    /\ UNCHANGED <<nonSubVars, codecVars>>

SendFinal(s) ==
    /\ Started(s) /\ subs[s].hpc = "sendFinal" /\ CanSend(subs[s])
    /\ subs' = [subs EXCEPT ![s] =
                  [ChanSend(@, StreamEvent(@.req, StatusEvent("completed", TRUE)))
                      EXCEPT !.hpc = "close"]]
    /\ UNCHANGED <<nonSubVars, codecVars>>

(* Mutant of Close: the handler neither closes nor returns, but loops on *)
CloseAndLoop(s) ==
    /\ Started(s) /\ subs[s].hpc = "close"
    /\ subs' = [subs EXCEPT ![s].hpc = "select"]
    /\ UNCHANGED <<nonSubVars, codecVars>>

(* close(res); return *)
Close(s) ==
    /\ Started(s) /\ subs[s].hpc = "close"
    /\ subs' = [subs EXCEPT ![s].closed = TRUE, ![s].hpc = "done"]
    /\ UNCHANGED <<nonSubVars, codecVars>>

(* agentStreamHandler: gin's c.Stream loop around the step callback.  The  *)
(* loop first looks at the connection's close notification and ends if the  *)
(* client is gone.  The callback blocks in <-resultChan; with a result it   *)
(* writes the SSE event and returns true, and the loop, back at its top,    *)
(* ends if the connection has been closed and calls the callback again      *)
(* otherwise.                                                               *)
WriterSelect(s) ==
    /\ Started(s) /\ subs[s].wpc = "top"
    /\ subs' = [subs EXCEPT ![s].wpc = IF subs[s].gone THEN "gone" ELSE "step"]
    /\ UNCHANGED <<nonSubVars, codecVars>>

(* Mutant of ChanRecv: the response is written but left in the channel *)
ChanRecvPeek(sub) ==
    [sub EXCEPT !.emitted = Append(@, Head(sub.buf)),
                !.wpc = IF sub.gone THEN "gone" ELSE "step"]

ChanRecv(sub) ==
    [sub EXCEPT !.buf = Tail(@), !.emitted = Append(@, Head(sub.buf)),
                !.wpc = IF sub.gone THEN "gone" ELSE "step"]
WriterRecv(s) ==
    /\ Started(s) /\ subs[s].wpc = "step" /\ subs[s].buf # <<>>
    /\ subs' = [subs EXCEPT ![s] = ChanRecv(@)]
    /\ UNCHANGED <<nonSubVars, codecVars>>

(* Mutant of WriterEnd: an empty channel ends the stream, closed or not *)
WriterEndOnEmpty(s) ==
    /\ Started(s) /\ subs[s].wpc = "step" /\ subs[s].buf = <<>>
    /\ subs' = [subs EXCEPT ![s].wpc = "closed"]
    /\ UNCHANGED <<nonSubVars, codecVars>>

(* <-resultChan on the closed, drained channel: the step returns false *)
WriterEnd(s) ==
    /\ Started(s) /\ subs[s].wpc = "step" /\ subs[s].buf = <<>> /\ subs[s].closed
    /\ subs' = [subs EXCEPT ![s].wpc = "closed"]
    /\ UNCHANGED <<nonSubVars, codecVars>>

(* The subscriber closes its connection *)
Disconnect(s) ==
    /\ Started(s) /\ ~subs[s].gone /\ subs[s].wpc \in {"top", "step"}
    /\ subs' = [subs EXCEPT ![s].gone = TRUE]
    /\ UNCHANGED <<nonSubVars, codecVars>>

HandlerStep(s) == Tick(s) \/ Timeout(s) \/ SendArtifact(s) \/ SendFinal(s) \/ Close(s)
WriterStep(s) == WriterSelect(s) \/ WriterRecv(s) \/ WriterEnd(s)

(* The HTTP side of a streaming agent: SwitchOn registers POST <path>,      *)
(* POST <path>/stream and GET <path>/stream.  The goroutines a GET starts   *)
(* leave the store, the responses and the number of subscriptions alone;    *)
(* they are scheduled in SpecStream.                                        *)
Next ==
    \/ \E w \in StreamRequests : Post(w, TRUE)
    \/ \E k \in Keys : Expire(k)
    \/ \E q \in Queries, hasId \in BOOLEAN : Get(q, hasId)

Spec == Init /\ [][Next]_vars

(* One client that posts a request and subscribes to it, before and after   *)
(* the record's expiry, with the handler goroutines and SSE writers of the  *)
(* first MaxStreams subscriptions running                                   *)
StreamRequest == ReqJSON(IdStr("1"), TasksSendSubscribe, Params1)
NextStream ==
    \/ Post(StreamRequest, TRUE)
    \/ Expire(StoreKey(StreamRequest.id))
    \/ Get(IdText(StreamRequest.id), TRUE)
    \/ \E s \in 1..MaxStreams : WriterSelect(s)
    \/ \E s \in 1..MaxStreams : Tick(s)
    \/ \E s \in 1..MaxStreams : Timeout(s)
    \/ \E s \in 1..MaxStreams : SendArtifact(s)
    \/ \E s \in 1..MaxStreams : SendFinal(s)
    \/ \E s \in 1..MaxStreams : Close(s)
    \/ \E s \in 1..MaxStreams : WriterRecv(s)
    \/ \E s \in 1..MaxStreams : WriterEnd(s)
    \/ \E s \in 1..MaxStreams : Disconnect(s)

SpecStream == Init /\ [][NextStream]_vars

(* The scheduler runs every runnable goroutine and the timers fire *)
FairSpec ==
    /\ SpecStream
    /\ \A s \in 1..MaxStreams : WF_vars(HandlerStep(s)) /\ WF_vars(WriterStep(s))

----------------------------------------------------------------------------
(* An agent without streaming: SwitchOn registers only POST <path> *)
NextRpc ==
    \/ \E w \in RpcRequests, storeOk \in BOOLEAN : Post(w, storeOk)
    \/ \E k \in Keys : Expire(k)

SpecRpc == Init /\ [][NextRpc]_vars

----------------------------------------------------------------------------
(* The part codec on its own: one part encoded as Message.MarshalJSON       *)
(* encodes each element of Parts, then decoded by unmarshalPart             *)
Files == {ZeroFile, [name |-> "f", mimeType |-> "", bytes |-> "", uri |-> "u"],
          [name |-> "", mimeType |-> "text/plain", bytes |-> "aGk=", uri |-> ""]}
PartInputs ==
    {MkText(ptr, k, t, md) :
        ptr \in BOOLEAN, k \in {"", PartTypeText, PartTypeFile}, t \in {"", "hi"},
        md \in GoMaps}
    \cup {MkFile(ptr, k, f, md) :
        ptr \in BOOLEAN, k \in {"", PartTypeFile}, f \in Files, md \in GoMaps}
    \cup {MkData(ptr, k, d, md) :
        ptr \in BOOLEAN, k \in {"", PartTypeData}, d \in GoMaps, md \in GoMaps}

InitCodec ==
    /\ store = [k \in Keys |-> NoRecord]
    /\ lastPost = [req |-> NoReqJSON, http |-> NoHttp]
    /\ lastGet = NoGet
    /\ attached = [q \in Queries |-> 0]
    /\ subs = <<>>
    /\ cpc = "start"
    /\ part \in PartInputs
    /\ bytes = EncodePartStruct(ZeroPart)
    /\ decoded = PartErr("")
    /\ wire = NoWire
    /\ client = NoClient

EncodePart ==
    /\ cpc = "start"
    /\ bytes' = MarshalPart(part)
    /\ cpc' = "encoded"
    /\ UNCHANGED <<srvVars, part, decoded, wire, client>>

DecodePart ==
    /\ cpc = "encoded"
    /\ decoded' = unmarshalPart(bytes)
    /\ cpc' = "decoded"
    /\ UNCHANGED <<srvVars, part, bytes, wire, client>>

NextCodec == EncodePart \/ DecodePart

SpecCodec == InitCodec /\ [][NextCodec]_vars

----------------------------------------------------------------------------
(* The message, artifact and agent-card codecs on their own: one call of an *)
(* encoder or decoder per behaviour, an encoder's output decoded again      *)
MaxParts == 2
MaxSchemes == 2

DataJ == PartJSON(PartTypeData, Abs, Abs, NoFileJSON, OneMap, Abs)
LegacyJ == PartJSON(Abs, PartTypeText, "hi", NoFileJSON, Abs, Abs)
UnknownJ == PartJSON("image", Abs, Abs, NoFileJSON, Abs, Abs)
NumKindJ == PartJSON(NotStr, Abs, "hi", NoFileJSON, Abs, Abs)
PartJSONs == {TextJ, FileJ, DataJ, LegacyJ, UnknownJ, NumKindJ}

SeqsUpTo(S, n) == UNION {[1..k -> S] : k \in 0..n}

MessageJSONs ==
    {MsgJSON(MessageKind, id, "user", ps) :
        id \in {Abs, "", "m1"}, ps \in SeqsUpTo(PartJSONs, MaxParts)}
ArtifactJSONs ==
    {ArtifactJSON(id, Abs, ps) :
        id \in {Abs, "", "a1"}, ps \in SeqsUpTo(PartJSONs, MaxParts)}

SchemeKeys == <<"s1", "s2", "s3">>
SchemeTypeInputs == SecuritySchemeTypes \cup {"basic", Abs, NotStr}
CardJSONs ==
    {CardJSON("agent", [i \in 1..Len(ts) |-> SchemeJSON(SchemeKeys[i], ts[i])]) :
        ts \in SeqsUpTo(SchemeTypeInputs, MaxSchemes)}

PartValues ==
    {MkText(FALSE, "", "hi", NilMap), MkText(TRUE, PartTypeText, "hi", NilMap),
     MkText(TRUE, "", "hi", NilMap),
     MkText(FALSE, "bogus", "hi", NilMap),
     MkFile(FALSE, "", [name |-> "f", mimeType |-> "", bytes |-> "", uri |-> "u"], NilMap),
     MkData(FALSE, PartTypeText, OneMap, NilMap)}
Messages ==
    {Msg(k, id, "user", ps) :
        k \in {"", MessageKind}, id \in {"", "m1"}, ps \in SeqsUpTo(PartValues, MaxParts)}
Artifacts ==
    {Artifact(id, "", ps) : id \in {"", "a1"}, ps \in SeqsUpTo(PartValues, MaxParts)}

ArtifactJ == ArtifactJSON("a1", Abs, <<TextJ>>)
ErrorJ == [present |-> TRUE, code |-> ErrorInternal, message |-> "boom"]
ResponseJSONs ==
    {ResponseJSON("2.0", IdStr("1"), r, e) :
        r \in {ResultJSON(id, st, fin, art, <<>>) :
                  id \in {Abs, "t1"}, st \in {Abs, "completed"},
                  fin \in {Abs, "true", "false"}, art \in {NoArtifactJSON, ArtifactJ}}
             \cup {NoResultJSON, ScalarResultJSON},
        e \in {NoErrorJSON, ErrorJ}}
ResultArtifacts ==
    {Artifact(id, "", <<MkText(FALSE, PartTypeText, "hi", NilMap)>>) : id \in {"", "a1"}}
Responses ==
    {JSONRPCResponse("2.0", IdStr("1"), r, e) :
        e \in {NilError, JSONRPCError(ErrorInternal, "boom")},
        r \in {Task(id, "completed", as) :
                   id \in {"", "t1"}, as \in SeqsUpTo(ResultArtifacts, 1)}
            \cup {TaskStatusUpdateEvent(id, st, fin) :
                   id \in {"", "t1"}, st \in {"", "working"}, fin \in BOOLEAN}
            \cup {TaskArtifactUpdateEvent(id, a) :
                   id \in {"", "t1"}, a \in ResultArtifacts}
            \cup {NilResult}}
    \cup {JSONRPCResponse("2.0", IdStr("1"), NilResult, JSONRPCError(ErrorCodes[k], k)) :
            k \in DOMAIN ErrorCodes}

WireInputs ==
    {WireRun("decodeMessage", j) : j \in MessageJSONs}
    \cup {WireRun("decodeArtifact", j) : j \in ArtifactJSONs}
    \cup {WireRun("decodeCard", j) : j \in CardJSONs}
    \cup {WireRun("encodeMessage", m) : m \in Messages}
    \cup {WireRun("encodeArtifact", a) : a \in Artifacts}
    \cup {WireRun("decodeRequest", w) : w \in WireRequests}
    \cup {WireRun("decodeResponse", j) : j \in ResponseJSONs}
    \cup {WireRun("encodeResponse", r) : r \in Responses}

InitWire ==
    /\ store = [k \in Keys |-> NoRecord]
    /\ lastPost = [req |-> NoReqJSON, http |-> NoHttp]
    /\ lastGet = NoGet
    /\ attached = [q \in Queries |-> 0]
    /\ subs = <<>>
    /\ cpc = "start"
    /\ part = ZeroPart
    /\ bytes = EncodePartStruct(ZeroPart)
    /\ decoded = PartErr("")
    /\ wire \in WireInputs
    /\ client = NoClient

WireStep(op, from, to, out, back) ==
    /\ wire.op = op
    /\ wire.pc = from
    /\ wire' = [wire EXCEPT !.pc = to, !.out = out, !.back = back]
    /\ UNCHANGED <<srvVars, cpc, part, bytes, decoded, client>>

(* json.Unmarshal(data, &message) *)
DecodeMessage ==
    WireStep("decodeMessage", "start", "done", MessageUnmarshalJSON(wire.in), NoOut)

(* json.Unmarshal(data, &artifact) *)
DecodeArtifact ==
    WireStep("decodeArtifact", "start", "done", ArtifactUnmarshalJSON(wire.in), NoOut)

(* json.Unmarshal(data, &card) *)
DecodeCard ==
    WireStep("decodeCard", "start", "done", AgentCardUnmarshalJSON(wire.in), NoOut)

(* json.Marshal(message), and json.Unmarshal of the bytes it produced *)
EncodeMessage ==
    /\ wire.op = "encodeMessage"
    /\ wire.pc = "start"
    /\ wire' = [wire EXCEPT !.pc = "encoded", !.out = MessageMarshalJSON(wire.in),
                            !.mem = MarshalEffect(wire.in)]
    /\ UNCHANGED <<srvVars, cpc, part, bytes, decoded, client>>
DecodeEncodedMessage ==
    /\ wire.out.ok
    /\ WireStep("encodeMessage", "encoded", "done", wire.out,
                MessageUnmarshalJSON(wire.out.json))

(* json.Marshal(artifact), and json.Unmarshal of the bytes it produced *)
EncodeArtifactRun ==
    WireStep("encodeArtifact", "start", "encoded",
             [ok |-> TRUE, err |-> "", json |-> EncodeArtifact(wire.in)], NoOut)
DecodeEncodedArtifact ==
    WireStep("encodeArtifact", "encoded", "done", wire.out,
             ArtifactUnmarshalJSON(wire.out.json))

(* json.Unmarshal(data, &request), then validateMethodParams on the result *)
DecodeRequestRun ==
    WireStep("decodeRequest", "start", "decoded", DecodeRequest(wire.in), NoOut)
ValidateDecoded ==
    /\ wire.out.ok
    /\ LET e == validateMethodParams(wire.out.req.Method, wire.out.req.Params)
       IN WireStep("decodeRequest", "decoded", "done", wire.out,
                   [ok |-> e = "", err |-> e])

(* json.Unmarshal(data, &response) *)
DecodeResponse ==
    WireStep("decodeResponse", "start", "done", JSONRPCResponseUnmarshalJSON(wire.in),
             NoOut)

(* json.Marshal(response), and json.Unmarshal of the bytes it produced *)
EncodeResponse ==
    WireStep("encodeResponse", "start", "encoded", JSONRPCResponseMarshalJSON(wire.in),
             NoOut)
DecodeEncodedResponse ==
    WireStep("encodeResponse", "encoded", "done", wire.out,
             JSONRPCResponseUnmarshalJSON(wire.out.json))

NextWire ==
    \/ DecodeMessage
    \/ DecodeArtifact
    \/ DecodeCard
    \/ EncodeMessage
    \/ DecodeEncodedMessage
    \/ EncodeArtifactRun
    \/ DecodeEncodedArtifact
    \/ DecodeRequestRun
    \/ ValidateDecoded
    \/ DecodeResponse
    \/ EncodeResponse
    \/ DecodeEncodedResponse

SpecWire == InitWire /\ [][NextWire]_vars

----------------------------------------------------------------------------
(* The client: one call of A2AClient.SendReqStream.  The server it talks to *)
(* is the environment: the POST fails in transport or returns a status, the *)
(* SSE connection fails or opens, events arrive, the stream ends.           *)
MaxEvents == 2

ClientIds == {"u1", "u2", "u3"}
ClientParams ==
    {NilParams, TaskIDParams("t1"),
     TaskSendParams("t1", Msg(MessageKind, "m1", "user",
                              <<MkText(TRUE, PartTypeText, "hi", NilMap)>>))}
PostOutcomes ==
    {[transport |-> FALSE, status |-> st] :
        st \in {StatusOK, StatusBadRequest, StatusInternalServerError}}
    \cup {[transport |-> TRUE, status |-> 0]}
SSEEvents == {"artifact", "final"}

InitClient ==
    /\ store = [k \in Keys |-> NoRecord]
    /\ lastPost = [req |-> NoReqJSON, http |-> NoHttp]
    /\ lastGet = NoGet
    /\ attached = [q \in Queries |-> 0]
    /\ subs = <<>>
    /\ cpc = "start"
    /\ part = ZeroPart
    /\ bytes = EncodePartStruct(ZeroPart)
    /\ decoded = PartErr("")
    /\ wire = NoWire
    /\ client \in {ClientRun(m, ps, id) : m \in Methods, ps \in ClientParams, id \in ClientIds}

ClientReturn(ret, code) == [client EXCEPT !.pc = "returned", !.ret = ret, !.code = code]
ClientUnchanged == UNCHANGED <<srvVars, cpc, part, bytes, decoded, wire>>

(* SendReqStream up to its first network call *)
ClientValidate ==
    /\ client.pc = "start"
    /\ client' =
         IF validateMethodParams(client.method, client.params) # ""
         THEN ClientReturn("error", ErrorInvalidRequest)
         ELSE IF client.method = TasksSendSubscribe
         THEN [client EXCEPT !.pc = "post"]
         ELSE ClientReturn("chan", 0)
    /\ ClientUnchanged

(* Mutant of PostFailed: only a transport error counts *)
PostFailedTransportOnly(o) == o.transport

(* err != nil || res.IsError() *)
PostFailed(o) == o.transport \/ o.status > 399

(* c.Client.R().SetBody(req).Post(addr) and the two checks after it *)
ClientPost(o) ==
    /\ client.pc = "post"
    /\ LET sent == [client EXCEPT !.postId = client.id, !.postDone = TRUE,
                                  !.postStatus = o.status]
       IN client' = IF PostFailed(o)
                    THEN [sent EXCEPT !.pc = "returned", !.ret = "error",
                                      !.code = ErrorInternal]
                    ELSE [sent EXCEPT !.pc = "get"]
    /\ ClientUnchanged

(* newAddr := fmt.Sprintf("%v?id=%v", addr, id); c.EventSource.Get() *)
ClientGet(connected) ==
    /\ client.pc = "get"
    /\ LET asked == [client EXCEPT !.getQuery = client.id]
       IN client' = IF connected
                    THEN [asked EXCEPT !.pc = "listening"]
                    ELSE [asked EXCEPT !.pc = "returned", !.ret = "error",
                                       !.code = ErrorInternal]
    /\ ClientUnchanged

(* The OnMessage callback: it prints the event *)
ClientOnMessage(e) ==
    /\ client.pc = "listening"
    /\ Len(client.seen) < MaxEvents
    /\ client' = [client EXCEPT !.seen = Append(client.seen, e)]
    /\ ClientUnchanged

(* The stream ends, EventSource.Get returns nil, SendReqStream returns resChan *)
ClientStreamEnd ==
    /\ client.pc = "listening"
    /\ client' = ClientReturn("chan", 0)
    /\ ClientUnchanged

NextClient ==
    \/ ClientValidate
    \/ \E o \in PostOutcomes : ClientPost(o)
    \/ \E connected \in BOOLEAN : ClientGet(connected)
    \/ \E e \in SSEEvents : ClientOnMessage(e)
    \/ ClientStreamEnd

SpecClient == InitClient /\ [][NextClient]_vars

----------------------------------------------------------------------------
(* Properties *)
Subs == 1..MaxSubs
Streams == 1..MaxStreams
IsArtifact(e) == e.kind = "response" /\ e.result.type = "TaskArtifactUpdateEvent"
IsFinal(e) ==
    e.kind = "response" /\ e.result.type = "TaskStatusUpdateEvent" /\ e.result.final

(* seq is artifact events only, except that its last element may be the    *)
(* final status event                                                       *)
ArtifactsThenFinal(seq) ==
    \A i \in 1..Len(seq) :
        IF i < Len(seq) THEN IsArtifact(seq[i]) ELSE IsArtifact(seq[i]) \/ IsFinal(seq[i])
StreamComplete(s) ==
    /\ Started(s)
    /\ subs[s].wpc = "closed" /\ subs[s].closed
    /\ Len(subs[s].emitted) >= 1
    /\ IsFinal(subs[s].emitted[Len(subs[s].emitted)])
    /\ \A i \in 1..(Len(subs[s].emitted) - 1) : IsArtifact(subs[s].emitted[i])

Acked(p) == p.req.method = TasksSendSubscribe /\ p.http = Http(StatusOK, NullBody)
NotFoundResponse ==
    Http(StatusInternalServerError, ErrorBody(ErrorInternal, "request id no found"))
RECURSIVE SumAttached(_)
SumAttached(Q) ==
    IF Q = {} THEN 0
    ELSE LET q == CHOOSE x \in Q : TRUE IN attached[q] + SumAttached(Q \ {q})

(* C2: a GET for an id never written and a GET for an id whose record has  *)
(* expired get the same "request id not found" error response, and neither *)
(* starts a StreamHandler or creates a result channel.                     *)
C2_NotFoundIdentical ==
    /\ lastGet.cause \in {"never", "expired"} =>
          lastGet.http = NotFoundResponse /\ lastGet.sub = 0
    /\ Len(subs) = SumAttached(Queries)

C2_Witness ==
    /\ lastGet.cause = "expired" /\ lastGet.q = "1"
    /\ Acked(lastPost) /\ subs = <<>>

(* C3: after an acknowledged tasks/sendSubscribe POST of request r with id *)
(* i, a GET ?id=i that arrives while the record is live starts the         *)
(* StreamHandler on a request equal to r (the last one written).           *)
C3_HandOff ==
    [][ ( /\ lastGet' # lastGet
          /\ Acked(lastPost)
          /\ store[StoreKey(lastPost.req.id)].live
          /\ lastGet'.cause # "noquery"
          /\ lastGet'.q = IdText(lastPost.req.id) )
        => ( /\ lastGet'.sub # 0
             /\ subs'[lastGet'.sub].req = DecodeRequest(lastPost.req).req ) ]_vars

(* C4: the responses written to the SSE stream are the responses the       *)
(* handler sent on the result channel, in the same order, none dropped,    *)
(* duplicated or reordered: what was sent is what was written followed by  *)
(* what the channel still holds.                                           *)
C4_Fifo ==
    \A s \in Subs : Started(s) =>
        /\ subs[s].sent = subs[s].emitted \o subs[s].buf
        /\ subs[s].wpc = "closed" => subs[s].emitted = subs[s].sent

C4_Witness ==
    \E s \in Subs :
        /\ Started(s) /\ subs[s].wpc = "closed"
        /\ Len(subs[s].emitted) = 2 /\ subs[s].emitted[1] # subs[s].emitted[2]

(* C5 as claimed: the SSE writer has stopped only if the channel is closed *)
(* and everything sent has been written.                                   *)
WriterStopped(sub) == sub.wpc \in {"closed", "gone"}
C5_OnlyCloseStops ==
    \A s \in Subs : (Started(s) /\ WriterStopped(subs[s])) =>
        subs[s].closed /\ subs[s].buf = <<>> /\ subs[s].emitted = subs[s].sent

(* C5 amended: the writer ends on the channel's close, after writing every *)
(* response sent before it, and writes nothing afterwards; the only other  *)
(* way it ends is the subscriber's connection closing.  Once the channel   *)
(* is closed the writer does end.                                          *)
C5_CloseOrDisconnect ==
    /\ [](\A s \in Subs : Started(s) =>
            /\ subs[s].wpc = "closed" =>
                 subs[s].closed /\ subs[s].buf = <<>> /\ subs[s].emitted = subs[s].sent
            /\ subs[s].wpc = "gone" => subs[s].gone)
    /\ [][\A s \in Subs : (Started(s) /\ WriterStopped(subs[s])) =>
            subs'[s].emitted = subs[s].emitted /\ subs'[s].wpc = subs[s].wpc]_vars
    /\ \A s \in Streams :
          (Started(s) /\ subs[s].closed) ~> (Started(s) /\ WriterStopped(subs[s]))

C5_Witness ==
    \E s \in Subs :
        /\ Started(s) /\ subs[s].wpc = "closed" /\ ~subs[s].gone
        /\ Len(subs[s].sent) = 1

(* C6: the result channel never buffers more than one response, and while  *)
(* one is buffered no send completes: the buffered response stays until    *)
(* the writer takes it.                                                    *)
C6_CapacityOne ==
    /\ [](\A s \in Subs : Started(s) => Len(subs[s].buf) <= 1)
    /\ [][\A s \in Subs : (Started(s) /\ Len(subs[s].buf) = 1) =>
            /\ subs'[s].sent = subs[s].sent
            /\ \/ subs'[s].buf = subs[s].buf
               \/ /\ subs'[s].buf = <<>>
                  /\ subs'[s].emitted = Append(subs[s].emitted, subs[s].buf[1])]_vars

C6_Witness ==
    \E s \in Subs :
        /\ Started(s) /\ Len(subs[s].buf) = 1
        /\ subs[s].hpc = "sendFinal" /\ subs[s].wpc = "step"

(* C7 as claimed: no request id ever has more than one StreamHandler *)
C7_OneAttachPerId ==
    \A i \in IdToks : Cardinality({s \in 1..Len(subs) : subs[s].req.ID = i}) <= 1

(* C7 amended: one StreamHandler (and one channel) is started per GET that *)
(* finds a live record, so an id has as many StreamHandlers as GETs that   *)
(* found it.                                                               *)
C7_OneAttachPerGet ==
    /\ \A q \in Queries : Cardinality({s \in 1..Len(subs) : subs[s].q = q}) = attached[q]
    /\ lastGet.cause = "live" => lastGet.sub = Len(subs)

C7_Witness ==
    /\ Len(subs) = 2 /\ attached["1"] = 2
    /\ subs[1].req.ID = subs[2].req.ID

(* C8: once the SSE writer has ended on the subscriber's disconnect, a     *)
(* handler with more than one response left to send (or with one left and  *)
(* the buffer full) never returns: it stays short of "done" for ever.      *)
Doomed(sub) ==
    /\ sub.wpc = "gone" /\ ~sub.closed
    /\ \/ sub.hpc = "sendArtifact"
       \/ sub.hpc \in {"select", "sendFinal"} /\ Len(sub.buf) = ChanCap
C8_NoCancellation ==
    [][\A s \in Subs : (Started(s) /\ Doomed(subs[s])) =>
          Doomed(subs'[s]) /\ subs'[s].hpc # "done"]_vars

C8_Witness ==
    \E s \in Subs :
        /\ Started(s) /\ Doomed(subs[s])
        /\ subs[s].hpc = "sendFinal" /\ Len(subs[s].buf) = 1

(* C9: the tasks/send request of scenario A (message without messageId) is *)
(* answered with a Task whose status.state is "completed".                 *)
C9_ScenarioA ==
    lastPost.req = ScenarioA =>
        /\ lastPost.http.status = StatusOK
        /\ lastPost.http.body.kind = "response"
        /\ lastPost.http.body.result.type = "Task"
        /\ lastPost.http.body.result.state = "completed"

(* C10: for a valid part p of any variant (its Kind is its variant's tag), *)
(* decoding the encoding of p succeeds and gives the same variant, Kind,   *)
(* content and metadata entries.                                           *)
ValidPart(p) == p.Kind = p.variant
SamePart(a, b) ==
    /\ a.variant = b.variant /\ a.Kind = b.Kind
    /\ a.Text = b.Text /\ a.File = b.File
    /\ MapEntries(a.Data) = MapEntries(b.Data)
    /\ MapEntries(a.Metadata) = MapEntries(b.Metadata)
C10_PartRoundTrip ==
    (cpc = "decoded" /\ ValidPart(part)) => decoded.ok /\ SamePart(decoded.part, part)

C10_Witness ==
    /\ cpc = "decoded" /\ ValidPart(part) /\ decoded.ok
    /\ part.variant = PartTypeFile /\ part.Metadata = OneMap /\ part.File.uri = "u"

(* C16: a request whose method is not in the method table is not decoded   *)
(* successfully, and the server answers it with the MethodNotFound code.   *)
Served(p) == p.http # NoHttp
C16_MethodNotFound ==
    (Served(lastPost) /\ lastPost.req.method \notin DOMAIN MethodToParamsType) =>
        /\ ~DecodeRequest(lastPost.req).ok
        /\ lastPost.http.body.kind = "error"
        /\ lastPost.http.body.code = ErrorMethodNotFound

(* C17: a request whose method is in the table and whose params fail to    *)
(* decode is answered with the InvalidParams or InvalidRequest code.       *)
C17_DecodeFailureCode ==
    ( /\ Served(lastPost)
      /\ lastPost.req.method \in DOMAIN MethodToParamsType
      /\ ~DecodeRequest(lastPost.req).ok ) =>
        /\ lastPost.http.body.kind = "error"
        /\ lastPost.http.body.code \in {ErrorInvalidParams, ErrorInvalidRequest}


Decoded(op) == wire.op = op /\ wire.pc = "done"
HasKind(ps, K) == \E i \in 1..Len(ps) : ps[i].kind \in K
UnknownKinds == {"image", ""}

(* C11: an unknown part kind, or an unknown security-scheme type, fails the  *)
(* whole decode of the Message, Artifact or AgentCard that holds it; such an *)
(* element is never skipped, so a decode that succeeds returns as many parts *)
(* or schemes as the JSON held.                                              *)
C11_Strict ==
    /\ Decoded("decodeMessage") =>
          /\ HasKind(wire.in.parts, UnknownKinds) => ~wire.out.ok
          /\ wire.out.ok => Len(wire.out.msg.Parts) = Len(wire.in.parts)
    /\ Decoded("decodeArtifact") =>
          /\ HasKind(wire.in.parts, UnknownKinds) => ~wire.out.ok
          /\ wire.out.ok => Len(wire.out.art.Parts) = Len(wire.in.parts)
    /\ Decoded("decodeCard") =>
          /\ (\E i \in 1..Len(wire.in.securitySchemes) :
                 wire.in.securitySchemes[i].type \notin
                     SecuritySchemeTypes \cup {Abs, NotStr}) => ~wire.out.ok
          /\ wire.out.ok =>
                Len(wire.out.card.SecuritySchemes) = Len(wire.in.securitySchemes)
C11_Witness ==
    /\ Decoded("decodeMessage")
    /\ wire.in = MsgJSON(MessageKind, "m1", "user", <<TextJ, UnknownJ>>)
    /\ ~wire.out.ok
    /\ wire.out.err = "unknown part kind"

Disc(j) == IF j.kind # Abs THEN j.kind ELSE j.type
DecodedContainer == Decoded("decodeMessage") \/ Decoded("decodeArtifact")
IdOf(j) == IF wire.op = "decodeMessage" THEN j.messageId ELSE j.artifactId
PartsOf(out) == IF wire.op = "decodeMessage" THEN out.msg.Parts ELSE out.art.Parts

(* C12: a part without `kind` whose legacy `type` is text, file or data      *)
(* decodes to the matching variant, and a part is rejected as malformed only *)
(* when both fields are absent or the chosen discriminator is not a string.  *)
C12_LegacyFallback ==
    (DecodedContainer /\ GoStr(IdOf(wire.in)) # "") =>
        /\ (\A i \in 1..Len(wire.in.parts) : Disc(wire.in.parts[i]) \in PartTypes) =>
              /\ wire.out.ok
              /\ \A i \in 1..Len(wire.in.parts) :
                    PartsOf(wire.out)[i].variant = Disc(wire.in.parts[i])
        /\ wire.out.err = "part 'kind' field must be a string" =>
              \E i \in 1..Len(wire.in.parts) : Disc(wire.in.parts[i]) \in {Abs, NotStr}

Encoded(op) == wire.op = op /\ wire.pc \in {"encoded", "done"} /\ wire.out.ok

(* C13: whenever a Message or an Artifact is encoded, every part of its      *)
(* parts array is written with a discriminator equal to the tag of the       *)
(* part's variant, also when the part's Kind field was left empty.           *)
C13_EncodedDiscriminator ==
    (Encoded("encodeMessage") \/ Encoded("encodeArtifact")) =>
        /\ Len(wire.out.json.parts) = Len(wire.in.Parts)
        /\ \A i \in 1..Len(wire.in.Parts) :
              wire.out.json.parts[i].kind = wire.in.Parts[i].variant

(* C14: encoding a Message with an empty messageId fails and produces        *)
(* nothing, decoding a Message JSON whose messageId is absent or empty       *)
(* fails, and every Message that encodes successfully decodes successfully   *)
(* with the same messageId.                                                  *)
C14_MessageIdSymmetry ==
    /\ (wire.op = "encodeMessage" /\ wire.pc # "start" /\ wire.in.MessageId = "") =>
          /\ ~wire.out.ok
          /\ wire.out.json = NoMsgJSON
    /\ (Decoded("decodeMessage") /\ GoStr(wire.in.messageId) = "") => ~wire.out.ok
    /\ (wire.op = "encodeMessage" /\ wire.pc = "done") =>
          /\ wire.back.ok
          /\ wire.back.msg.MessageId = wire.in.MessageId

Undecodable(ps) == \E i \in 1..Len(ps) : ~unmarshalPart(ps[i]).ok
MissingIdError ==
    IF wire.op = "decodeMessage" THEN "messageId is required" ELSE "artifactId is required"

(* C15: when a Message or Artifact JSON lacks its identifier and also holds  *)
(* a part that cannot be decoded, the decoder reports the missing-identifier *)
(* error, never the part's error, and has decoded no part.                   *)
C15_IdentifierFirst ==
    ( /\ DecodedContainer
      /\ GoStr(IdOf(wire.in)) = ""
      /\ Undecodable(wire.in.parts) ) =>
        /\ ~wire.out.ok
        /\ wire.out.err = MissingIdError
        /\ PartsOf(wire.out) = <<>>
C15_Witness ==
    /\ Decoded("decodeArtifact")
    /\ wire.in = ArtifactJSON(Abs, Abs, <<TextJ, UnknownJ>>)
    /\ wire.out = ArtErr("artifactId is required")

(* C18: each of the seven methods has an entry in the method table, and for  *)
(* each of them decodeRequest yields params of the shape the table lists, so *)
(* every successfully decoded request passes validateMethodParams.           *)
C18_MethodTable ==
    (wire.op = "decodeRequest" /\ wire.pc = "done" /\ wire.in.method \in Methods) =>
        /\ wire.in.method \in DOMAIN MethodToParamsType
        /\ wire.out.req.Params.type = MethodToParamsType[wire.in.method]
        /\ wire.back.ok

HasId == wire.in.result.id # Abs
HasStatus == wire.in.result.status # Abs
HasArtifact == wire.in.result.artifact.present
HasFinal == wire.in.result.final # Abs

(* C19: the result type chosen on response decode depends only on the        *)
(* top-level fields of the result object: `id` and `status` give a Task,     *)
(* whatever else is present; otherwise `artifact` gives a                    *)
(* TaskArtifactUpdateEvent; otherwise `final` gives a TaskStatusUpdateEvent. *)
C19_ShapeInference ==
    (Decoded("decodeResponse") /\ wire.in.result.present /\ wire.in.result.object) =>
        /\ wire.out.ok
        /\ (HasId /\ HasStatus) => wire.out.resp.Result.type = "Task"
        /\ (~(HasId /\ HasStatus) /\ HasArtifact) =>
              wire.out.resp.Result.type = "TaskArtifactUpdateEvent"
        /\ (~(HasId /\ HasStatus) /\ ~HasArtifact /\ HasFinal) =>
              wire.out.resp.Result.type = "TaskStatusUpdateEvent"

(* C20: decoding an encoded response whose result is a Task, a               *)
(* TaskStatusUpdateEvent or a TaskArtifactUpdateEvent gives a result of the  *)
(* same variant, a TaskStatusUpdateEvent with the same final flag.           *)
C20_ResponseRoundTrip ==
    ( /\ wire.op = "encodeResponse"
      /\ wire.pc = "done"
      /\ wire.in.Result.type # "nil" ) =>
        /\ wire.back.ok
        /\ wire.back.resp.Result.type = wire.in.Result.type
        /\ wire.in.Result.type = "TaskStatusUpdateEvent" =>
              wire.back.resp.Result.Final = wire.in.Result.Final

NoShape ==
    \/ ~wire.in.result.object
    \/ ~(HasId /\ HasStatus) /\ ~HasArtifact /\ ~HasFinal
EnvelopeKept ==
    /\ wire.out.resp.JSONRPC = wire.in.jsonrpc
    /\ wire.out.resp.ID = wire.in.id
    /\ wire.out.resp.Error.set = wire.in.error.present
    /\ wire.in.error.present =>
          /\ wire.out.resp.Error.Code = wire.in.error.code
          /\ wire.out.resp.Error.Message = wire.in.error.message

(* C21: a response whose `result` value matches none of the three result     *)
(* shapes decodes without error to a response with a nil Result, with        *)
(* jsonrpc, id and error taken from the envelope.                            *)
C21_NoShapeNoResult ==
    (Decoded("decodeResponse") /\ wire.in.result.present /\ NoShape) =>
        /\ wire.out.ok
        /\ wire.out.resp.Result = NilResult
        /\ EnvelopeKept

(* C22: the response encoder never writes both `result` and `error`, also    *)
(* for a JSONRPCResponse whose Result and Error fields are both set.         *)
C22_ResultXorError ==
    (wire.op = "encodeResponse" /\ wire.pc \in {"encoded", "done"}) =>
        ~(wire.out.json.result.present /\ wire.out.json.error.present)

BodyHasResult(b) == b.kind = "response" /\ b.result.type # "none"
BodyHasError(b) == b.kind = "error"

(* C23: every response to a tasks/send, tasks/get or tasks/cancel request    *)
(* contains exactly one of result or error; a response with neither is       *)
(* produced only as the acknowledgment of a tasks/sendSubscribe submission.  *)
C23_ExactlyOne ==
    Served(lastPost) =>
        /\ lastPost.req.method \in {TasksSend, TasksGet, TasksCancel} =>
              BodyHasResult(lastPost.http.body) # BodyHasError(lastPost.http.body)
        /\ (~BodyHasResult(lastPost.http.body) /\ ~BodyHasError(lastPost.http.body)) =>
              /\ lastPost.req.method = TasksSendSubscribe
              /\ lastPost.http.status = StatusOK

FinalNonTerminal(r) ==
    r.type = "TaskStatusUpdateEvent" /\ r.Final /\ r.State \notin TerminalStates

(* C24: a TaskStatusUpdateEvent with final=true whose status.state is not    *)
(* completed, canceled, failed, rejected or unknown is rejected on encode    *)
(* and on decode.                                                            *)
C24_TerminalState ==
    /\ ( /\ wire.op = "encodeResponse"
         /\ wire.pc \in {"encoded", "done"}
         /\ FinalNonTerminal(wire.in.Result) ) => ~wire.out.ok
    /\ (Decoded("decodeResponse") /\ wire.out.ok) =>
          ~FinalNonTerminal(wire.out.resp.Result)

(* C25: in SendReqStream for tasks/sendSubscribe the subscription GET        *)
(* carries as `id` exactly the JSON-RPC id of the POST just sent, is issued  *)
(* only after the POST has completed, and is not issued when the POST failed *)
(* in transport or returned an error status.                                 *)
C25_Correlation ==
    client.getQuery # Abs =>
        /\ client.method = TasksSendSubscribe
        /\ client.postDone
        /\ client.postStatus = StatusOK
        /\ client.getQuery = StoreKey(IdStr(client.postId))
C25_Witness ==
    /\ client.pc = "listening"
    /\ client.postId = "u1"
    /\ client.getQuery = "u1"

(* C26: every SSE event received on the subscription is delivered on the     *)
(* channel SendReqStream returned, and once a final event was received or    *)
(* the stream ended that channel is closed.                                  *)
C26_Delivered ==
    /\ client.pc \in {"listening", "returned"} => client.resChan = client.seen
    /\ (client.pc = "returned" /\ client.ret = "chan" /\ client.getQuery # Abs) =>
          client.chanClosed

KindsOf(code) == {k \in DOMAIN ErrorCodes : ErrorCodes[k] = code}

(* C27: no two named error kinds share a code, so the code a client reads    *)
(* from a response names one kind; the five reserved JSON-RPC kinds have     *)
(* codes in -32700..-32603 and every other kind a code in -32099..-32000.    *)
C27_CodeTaxonomy ==
    ( /\ wire.op = "encodeResponse"
      /\ wire.pc = "done"
      /\ wire.in.Error.Message \in DOMAIN ErrorCodes ) =>
        LET code == wire.back.resp.Error.Code
        IN /\ KindsOf(code) = {wire.in.Error.Message}
           /\ IF wire.in.Error.Message \in ReservedKinds
              THEN code \in -32700..-32603
              ELSE code \in -32099..-32000

(* C28: Message.MarshalJSON leaves the Message and each of its parts         *)
(* unchanged, for parts held by value and by pointer, also when a part's     *)
(* Kind is empty before encoding.                                            *)
C28_EncodeNoEffect ==
    (wire.op = "encodeMessage" /\ wire.pc \in {"encoded", "done"}) => wire.mem = wire.in

(* C29: every Artifact, and every Task or TaskArtifactUpdateEvent holding    *)
(* artifacts, that encodes without error decodes back without error.         *)
C29_ArtifactCompat ==
    /\ (wire.op = "encodeArtifact" /\ wire.pc = "done") => wire.back.ok
    /\ ( /\ wire.op = "encodeResponse"
         /\ wire.pc = "done"
         /\ wire.in.Result.type \in {"Task", "TaskArtifactUpdateEvent"} ) => wire.back.ok

(* C30: tasks/sendSubscribe submissions with different JSON-RPC ids are      *)
(* stored under different keys: a live record is only ever replaced by a     *)
(* request with the same id, so no submission overwrites another's record.   *)
C30_InjectiveKeys ==
    [][ \A k \in Keys :
          (store[k].live /\ store'[k].value # store[k].value) =>
              store'[k].value.id = store[k].value.id ]_vars

============================================================================
